---- MODULE Spec2Model ----
(***************************************************************************)
(* A model of nikola's WordPress importer                                  *)
(* (nikola/plugins/command/import_wordpress.py).                           *)
(*                                                                         *)
(* A text (a Python str or bytes) is a sequence of atoms, each atom a      *)
(* string; Str(t) is the string it spells.  URL and file paths are split   *)
(* into the atom "/" and the separator-free components between; post       *)
(* contents and XML lines are sequences of single characters.              *)
(***************************************************************************)
EXTENDS Integers, Sequences, FiniteSets, TLC

----------------------------------------------------------------------------
(* Python str operations on texts *)

RECURSIVE Str(_)
Str(t) == IF t = <<>> THEN "" ELSE Head(t) \o Str(Tail(t))

Min(a, b) == IF a < b THEN a ELSE b

\* t[n:]
Drop(t, n) == SubSeq(t, Min(n, Len(t)) + 1, Len(t))

\* t[:n]
Take(t, n) == SubSeq(t, 1, Min(n, Len(t)))

\* t.startswith(p)
StartsWith(t, p) == Len(t) >= Len(p) /\ SubSeq(t, 1, Len(p)) = p

\* t.endswith(p)
EndsWith(t, p) == Len(t) >= Len(p) /\ SubSeq(t, Len(t) - Len(p) + 1, Len(t)) = p

\* t.find(p) + 1: the first position where p occurs in t, 0 when it does not
Find(t, p) ==
    LET hits == {i \in 1..(Len(t) - Len(p) + 1) : SubSeq(t, i, i + Len(p) - 1) = p}
    IN  IF hits = {} THEN 0 ELSE CHOOSE i \in hits : \A j \in hits : i <= j

\* t.rfind(p) + 1
RFind(t, p) ==
    LET hits == {i \in 1..(Len(t) - Len(p) + 1) : SubSeq(t, i, i + Len(p) - 1) = p}
    IN  IF hits = {} THEN 0 ELSE CHOOSE i \in hits : \A j \in hits : i >= j

\* t.split(sep): the list of the texts between the occurrences of sep
RECURSIVE Split(_, _)
Split(t, sep) ==
    LET i == Find(t, sep)
    IN  IF i = 0 THEN <<t>>
        ELSE <<SubSeq(t, 1, i - 1)>> \o Split(Drop(t, i - 1 + Len(sep)), sep)

\* sep.join(list)
RECURSIVE Join(_, _)
Join(list, sep) ==
    IF list = <<>> THEN <<>>
    ELSE IF Len(list) = 1 THEN list[1]
    ELSE list[1] \o sep \o Join(Tail(list), sep)

\* t.replace(old, "")
RECURSIVE Remove(_, _)
Remove(t, old) ==
    LET i == Find(t, old)
    IN  IF i = 0 THEN t
        ELSE SubSeq(t, 1, i - 1) \o Remove(Drop(t, i - 1 + Len(old)), old)

\* t.lstrip(chars): drops every leading atom that is in the set chars
RECURSIVE LStrip(_, _)
LStrip(t, chars) ==
    IF t # <<>> /\ Head(t) \in chars THEN LStrip(Tail(t), chars) ELSE t

\* t.rstrip(chars)
RECURSIVE RStrip(_, _)
RStrip(t, chars) ==
    IF t # <<>> /\ t[Len(t)] \in chars THEN RStrip(SubSeq(t, 1, Len(t) - 1), chars) ELSE t

Whitespace == {" ", "\t", "\n"}

\* t.strip()
Strip(t) == RStrip(LStrip(t, Whitespace), Whitespace)

\* t.strip('/')
StripSlash(t) == RStrip(LStrip(t, {"/"}), {"/"})

\* Put with the dict made anew: the other keys are lost
Put_fresh(d, k, v) == [x \in {k} |-> v]

\* a dict with d[k] = v assigned
Put(d, k, v) == [x \in DOMAIN d \cup {k} |-> IF x = k THEN v ELSE d[x]]

EmptyMap == [x \in {} |-> x]

----------------------------------------------------------------------------
(* Library calls the importer makes on paths and URLs *)

Schemes == {"http:", "https:"}

\* urlparse(url).path for a URL without query or fragment: what follows the
\* scheme and, after "//", the host
UrlPath(url) ==
    LET rest == IF url # <<>> /\ Head(url) \in Schemes THEN Tail(url) ELSE url
    IN  IF StartsWith(rest, <<"/", "/">>)
        THEN LET after == Drop(rest, 2)
                 i == Find(after, <<"/">>)
             IN  IF i = 0 THEN <<>> ELSE Drop(after, i - 1)
        ELSE rest

\* os.path.join(a, b)
PathJoin2(a, b) ==
    IF StartsWith(b, <<"/">>) THEN b
    ELSE IF a = <<>> \/ EndsWith(a, <<"/">>) THEN a \o b
    ELSE a \o <<"/">> \o b

\* os.path.join(*parts)
RECURSIVE PathJoinFrom(_, _)
PathJoinFrom(a, parts) ==
    IF parts = <<>> THEN a ELSE PathJoinFrom(PathJoin2(a, Head(parts)), Tail(parts))

PathJoin(parts) == PathJoinFrom(Head(parts), Tail(parts))

\* os.path.dirname(p)
Dirname(p) ==
    LET head == Take(p, RFind(p, <<"/">>))
    IN  IF head # <<>> /\ LStrip(head, {"/"}) # <<>> THEN RStrip(head, {"/"}) ELSE head

\* every directory utils.makedirs(d) leaves in existence
RECURSIVE Ancestors(_)
Ancestors(d) ==
    IF d = <<>> \/ LStrip(d, {"/"}) = <<>> THEN {}
    ELSE {Str(d)} \cup (IF Dirname(d) = d THEN {} ELSE Ancestors(Dirname(d)))

----------------------------------------------------------------------------
(* Content Transformer: texts are sequences of single characters *)

\* t.replace(old, new)
RECURSIVE Replace(_, _, _)
Replace(t, old, new) ==
    LET i == Find(t, old)
    IN  IF i = 0 THEN t
        ELSE SubSeq(t, 1, i - 1) \o new \o Replace(Drop(t, i - 1 + Len(old)), old, new)

\* '[sourcecode language="'
SC_OPEN == <<"[", "s", "o", "u", "r", "c", "e", "c", "o", "d", "e", " ", "l", "a", "n", "g", "u", "a", "g", "e", "=", "\"">>

\* '[/sourcecode]'
SC_CLOSE == <<"[", "/", "s", "o", "u", "r", "c", "e", "c", "o", "d", "e", "]">>

\* "\n~~~~~~~~~~~~"
FENCE == <<"\n", "~", "~", "~", "~", "~", "~", "~", "~", "~", "~", "~", "~">>

\* re.sub('\[sourcecode language="([^"]+)"\]', "\n~~~~~~~~~~~~{.\\1}\n", t)
RECURSIVE SubSourcecode(_)
SubSourcecode(t) ==
    IF t = <<>> THEN <<>>
    ELSE LET rest == Drop(t, Len(SC_OPEN))
             q == Find(rest, <<"\"">>)
         IN  IF StartsWith(t, SC_OPEN) /\ q > 1 /\ StartsWith(Drop(rest, q - 1), <<"\"", "]">>)
             THEN FENCE \o <<"{", ".">> \o Take(rest, q - 1) \o <<"}", "\n">>
                  \o SubSourcecode(Drop(rest, q + 1))
             ELSE <<Head(t)>> \o SubSourcecode(Tail(t))

transform_sourcecode(content) ==
    Replace(SubSourcecode(content), SC_CLOSE, FENCE \o <<"\n">>)

\* '[caption'
CAP_OPEN == <<"[", "c", "a", "p", "t", "i", "o", "n">>

\* '[/caption]'
CAP_CLOSE == <<"[", "/", "c", "a", "p", "t", "i", "o", "n", "]">>

\* re.sub(r'\[caption.*\]', '', t): '.' matches no newline and '.*' is greedy,
\* so a match runs from '[caption' to the last ']' of the same line
RECURSIVE SubCaptionOpen(_)
SubCaptionOpen(t) ==
    IF t = <<>> THEN <<>>
    ELSE LET rest == Drop(t, Len(CAP_OPEN))
             nl == Find(rest, <<"\n">>)
             line == IF nl = 0 THEN rest ELSE Take(rest, nl - 1)
             r == RFind(line, <<"]">>)
         IN  IF StartsWith(t, CAP_OPEN) /\ r > 0
             THEN SubCaptionOpen(Drop(rest, r))
             ELSE <<Head(t)>> \o SubCaptionOpen(Tail(t))

transform_caption(content) == SubCaptionOpen(Remove(content, CAP_CLOSE))

\* re.sub(r'\n{3,}', r'\n\n', t)
RECURSIVE SubNewlines(_)
SubNewlines(t) ==
    IF t = <<>> THEN <<>>
    ELSE IF StartsWith(t, <<"\n", "\n", "\n">>)
         THEN <<"\n", "\n">> \o SubNewlines(LStrip(t, {"\n"}))
         ELSE <<Head(t)>> \o SubNewlines(Tail(t))

\* transform_multiple_newlines without the test of self.squash_newlines
transform_multiple_newlines_always(squash, content) == SubNewlines(content)

transform_multiple_newlines(squash, content) ==
    IF squash THEN SubNewlines(content) ELSE content

transform_content(squash, content) ==
    transform_multiple_newlines(squash, transform_caption(transform_sourcecode(content)))

----------------------------------------------------------------------------
(* Multilingual Splitter *)

\* "<!--:"
qt_start == <<"<", "!", "-", "-", ":">>

\* "-->"
qt_end == <<"-", "-", ">">>

qt_end_with_lang_len == 5

\* One chunk of the loop, up to the test of lang: whether the chunk is skipped
\* (continue), its language ("" for common text) and what is left of it
QtChunk(c) ==
    IF Strip(c) = <<>> THEN [skip |-> TRUE, lang |-> "", c |-> c]
    ELSE IF StartsWith(c, qt_end)
    THEN LET c2 == LStrip(c, {"-", ">"})
         IN  [skip |-> c2 = <<>>, lang |-> "", c |-> c2]
    ELSE IF StartsWith(Drop(c, 2), qt_end)
    THEN [skip |-> FALSE, lang |-> Str(Take(c, 2)), c |-> Drop(c, qt_end_with_lang_len)]
    ELSE [skip |-> FALSE, lang |-> "", c |-> c]

\* common text: appended to the common list and to every language seen so far
QtCommon(st, c) ==
    [common_txt_list |-> Append(st.common_txt_list, c),
     content_by_lang |-> [l \in DOMAIN st.content_by_lang |->
                              Append(st.content_by_lang[l], c)]]

\* QtLang with the chunk appended to the list of every language
QtLang_all(st, lang, c) ==
    [common_txt_list |-> st.common_txt_list,
     content_by_lang |->
         [l \in DOMAIN st.content_by_lang \cup {lang} |->
             (IF l \in DOMAIN st.content_by_lang
              THEN st.content_by_lang[l] ELSE st.common_txt_list) \o <<c>>]]

\* QtLang with a new language's list started empty: get(lang, []) + [c]
QtLang_unseeded(st, lang, c) ==
    [common_txt_list |-> st.common_txt_list,
     content_by_lang |->
         Put(st.content_by_lang, lang,
             (IF lang \in DOMAIN st.content_by_lang
              THEN st.content_by_lang[lang] ELSE <<>>) \o <<c>>)]

\* text of language lang: content_by_lang.get(lang, common_txt_list) + [c]
QtLang(st, lang, c) ==
    [common_txt_list |-> st.common_txt_list,
     content_by_lang |->
         Put(st.content_by_lang, lang,
             (IF lang \in DOMAIN st.content_by_lang
              THEN st.content_by_lang[lang] ELSE st.common_txt_list) \o <<c>>)]

\* the body of the loop over the chunks
QtBody(st, chunk) ==
    LET k == QtChunk(chunk)
    IN  IF k.skip THEN st
        ELSE IF k.lang = "" THEN QtCommon(st, k.c)
        ELSE QtLang(st, k.lang, k.c)

QtInit == [common_txt_list |-> <<>>, content_by_lang |-> EmptyMap]

\* QtFinish without the default entry for a text of common chunks only
QtFinish_no_default(st) ==
    [l \in DOMAIN st.content_by_lang |-> Join(st.content_by_lang[l], <<" ">>)]

\* what follows the loop: the default entry, then the lists joined with " "
QtFinish(st) ==
    LET by_lang == IF st.common_txt_list # <<>> /\ DOMAIN st.content_by_lang = {}
                   THEN Put(EmptyMap, "", st.common_txt_list)
                   ELSE st.content_by_lang
    IN  [l \in DOMAIN by_lang |-> Join(by_lang[l], <<" ">>)]

RECURSIVE QtLoop(_, _)
QtLoop(st, chunks) ==
    IF chunks = <<>> THEN st ELSE QtLoop(QtBody(st, Head(chunks)), Tail(chunks))

separate_qtranslate_content(text) == QtFinish(QtLoop(QtInit, Split(text, qt_start)))

----------------------------------------------------------------------------
(* State: the import run, and a call of each function checked on its own *)

VARIABLES
    output_folder,      \* self.output_folder, a path
    squash_newlines,    \* self.squash_newlines
    exclude_drafts,     \* self.exclude_drafts
    no_downloads,       \* self.no_downloads
    qtranslate,         \* self.separate_qtranslate_content (the option)
    phpserialize,       \* whether the phpserialize module could be imported
    context,            \* self.context: SITE_URL and DEFAULT_LANG
    url_map,            \* self.url_map: permalink -> new URL
    links,              \* basic_import.links: attachment URL -> new path
    timezone,           \* self.timezone, "" for None
    files,              \* the files written under the output folder
    dirs,               \* the directories import_attachment made
    item,               \* the item of import_posts' loop
    n_items,            \* how many items the loop has handled
    pc,                 \* "import", "done", or "aborted" by an exception
    url_map_csv,        \* the mapping given to write_urlmap_csv
    first_tz            \* history: the timezone of the first item of the
                        \* document whose post_date carries one, "" for none

runvars == <<output_folder, squash_newlines, exclude_drafts, no_downloads, qtranslate,
             phpserialize, context, url_map, links, timezone, files, dirs, item, n_items,
             pc, url_map_csv, first_tz>>

\* separate_qtranslate_content, chunk by chunk
VARIABLES
    qt_text,            \* the argument
    qt_chunks,          \* text.split(qt_start)
    qt_i,               \* the index of the loop's next chunk
    content_by_lang,    \* language -> list of chunks
    common_txt_list,    \* the common chunks
    qt_result,          \* the mapping returned
    qt_pc               \* "call", "loop", "returned"; "off" outside this function

qtvars == <<qt_text, qt_chunks, qt_i, content_by_lang, common_txt_list, qt_result, qt_pc>>

\* transform_caption
VARIABLES
    cap_content,        \* the argument
    new_caption,        \* the text returned
    cap_pc              \* "call", "returned"; "off" outside this function

capvars == <<cap_content, new_caption, cap_pc>>

\* _glue_xml_lines
VARIABLES
    xml,                                \* the argument: a list of lines
    glue_i,                             \* the index of the loop's next line
    new_xml,                            \* the buffer
    previous_line_ended_in_newline,
    previous_line_was_indentet,
    glue_pc                             \* "call", "loop", "returned"; "off"

gluevars == <<xml, glue_i, new_xml, previous_line_ended_in_newline,
              previous_line_was_indentet, glue_pc>>

\* transform_content, applied to a text and then to its own result
VARIABLES
    tc_content,         \* the argument
    tc_once,            \* transform_content(content)
    tc_twice,           \* transform_content(transform_content(content))
    tc_pc               \* "call", "once", "twice"; "off" outside this function

tcvars == <<tc_content, tc_once, tc_twice, tc_pc>>

\* populate_context
VARIABLES
    ctx_channel,        \* the argument: the channel element
    ctx,                \* the context dict being filled
    ctx_pc              \* "call", "language", "link", "returned", "raised"; "off"

ctxvars == <<ctx_channel, ctx, ctx_pc>>

vars == <<runvars, qtvars, capvars, gluevars,
                   tcvars, ctxvars>>

\* the number of items of the channel
MaxItems == 2

----------------------------------------------------------------------------
(* The items of the channel *)

\* a _wp_attachment_metadata value: missing, not decodable by
\* phpserialize.loads, a structure without 'sizes', one with a size variant
NoValue == [present |-> FALSE, decodable |-> FALSE, sizes |-> FALSE, file |-> <<>>]
Garbage == [present |-> TRUE, decodable |-> FALSE, sizes |-> FALSE, file |-> <<>>]
NoSizes == [present |-> TRUE, decodable |-> TRUE, sizes |-> FALSE, file |-> <<>>]
OneSize == [present |-> TRUE, decodable |-> TRUE, sizes |-> TRUE,
            file |-> <<<<"a-150x150.jpg">>>>]

MetaValues == {NoValue, Garbage, NoSizes, OneSize}

AttachmentMeta(v) == [meta_key |-> "_wp_attachment_metadata", meta_value |-> v]

Postmetas ==
    {<<>>, <<[meta_key |-> "_wp_attached_file", meta_value |-> NoSizes]>>,
     <<AttachmentMeta(NoSizes), AttachmentMeta(OneSize)>>}
    \cup {<<AttachmentMeta(v)>> : v \in MetaValues}

\* http://site/wp-content/2012/09/a.jpg
UrlA == <<"http:", "/", "/", "site", "/", "wp-content", "/", "2012", "/", "09", "/", "a.jpg">>

\* http://site/?attachment_id=5
LinkA == <<"http:", "/", "/", "site", "/", "?attachment_id=5">>

\* the default of get_text_tag for a missing attachment_url or link
Foo == <<"foo">>

NoText == <<>>

\* the text of an element that is present and empty: get_text_tag returns
\* t.text, which is None
None == <<"None">>

AttachmentItems ==
    {[post_type |-> "attachment", link |-> NoText, attachment_url |-> UrlA,
      wp_link |-> LinkA, post_name |-> NoText, post_id |-> NoText, tz |-> "",
      status |-> "inherit", content |-> NoText, postmeta |-> m] : m \in Postmetas}
    \cup
    {[post_type |-> "attachment", link |-> NoText, attachment_url |-> UrlA,
      wp_link |-> Foo, post_name |-> NoText, post_id |-> NoText, tz |-> "UTC",
      status |-> "inherit", content |-> NoText, postmeta |-> <<>>]}
    \cup
    {[post_type |-> "attachment", link |-> NoText, attachment_url |-> Foo,
      wp_link |-> Foo, post_name |-> NoText, post_id |-> NoText, tz |-> "",
      status |-> "inherit", content |-> NoText, postmeta |-> <<>>]}

\* the permalink, post_type, post_name, post_id and publish-date timezone of
\* the posts and pages; the first has a nested permalink, the others none, and
\* get their slug from post_name, from post_id, from nowhere
PostHeads ==
    {[post_type |-> "post", tz |-> "Europe/Zurich", post_name |-> <<"hello-world">>,
      post_id |-> <<"7">>,
      link |-> <<"http:", "/", "/", "some.blog", "/", "2012", "/", "09", "/",
                 "Hello%20World", "/">>],
     [post_type |-> "page", tz |-> "UTC", post_name |-> <<"about">>, post_id |-> <<"2">>,
      link |-> <<"http:", "/", "/", "some.blog", "/">>],
     [post_type |-> "post", tz |-> "", post_name |-> NoText, post_id |-> <<"9">>,
      link |-> <<"http:", "/", "/", "some.blog", "/">>],
     [post_type |-> "page", tz |-> "Asia/Tokyo", post_name |-> NoText, post_id |-> NoText,
      link |-> <<"http:", "/", "/", "some.blog", "/">>]}

Statuses == {"publish", "draft", "trash"}

\* "  "
Blank == <<" ", " ">>

\* "[caption id=1]Hi[/caption]"
Plain == <<"[", "c", "a", "p", "t", "i", "o", "n", " ", "i", "d", "=", "1", "]", "H", "i", "[", "/", "c", "a", "p", "t", "i", "o", "n", "]">>

\* "<!--:en-->A<!--:-->&<!--:fr-->B<!--:-->"
TwoLangs == <<"<", "!", "-", "-", ":", "e", "n", "-", "-", ">", "A", "<", "!", "-", "-", ":", "-", "-", ">", "&", "<", "!", "-", "-", ":", "f", "r", "-", "-", ">", "B", "<", "!", "-", "-", ":", "-", "-", ">">>

\* "<!--:-->"
OnlyEnd == qt_start \o qt_end

\* the content element may be missing (the default ''), or present and empty
Contents == {NoText, Blank, Plain, TwoLangs, OnlyEnd, None}

\* a post or page of each status; the ones without a nested permalink have
\* the plain content
PostItems ==
    {p \in {[post_type |-> h.post_type, link |-> h.link, attachment_url |-> NoText,
             wp_link |-> NoText, post_name |-> h.post_name, post_id |-> h.post_id,
             tz |-> h.tz, status |-> s, content |-> c, postmeta |-> <<>>]
                : h \in PostHeads, s \in Statuses, c \in Contents} :
        p.post_name = <<"hello-world">> \/ p.content = Plain}

Items == AttachmentItems \cup PostItems

NoItem == [post_type |-> "", link |-> NoText, attachment_url |-> NoText,
           wp_link |-> NoText, post_name |-> NoText, post_id |-> NoText, tz |-> "",
           status |-> "", content |-> NoText, postmeta |-> <<>>]

----------------------------------------------------------------------------
(* Attachment Resolver *)

\* a written file
File(kind, data) == [kind |-> kind, data |-> data]

\* the state import_attachment works on; raised is the exception that has
\* left the handler, "" when none has; fetches counts the calls of requests.get
Resolver == [links |-> links, files |-> files, dirs |-> dirs, raised |-> "", fetches |-> 0]

\* download_url_content_to_file(url, dst_path): open(dst_path, 'wb+') creates
\* the file, requests.get fetches the bytes or raises ConnectionError, which
\* is caught
download_url_content_to_file(st, dst_path, failing) ==
    IF no_downloads THEN st
    ELSE [st EXCEPT !.fetches = @ + 1,
                    !.files = Put(@, Str(dst_path),
                                  IF (st.fetches + 1) \in failing
                                  THEN File("empty", "") ELSE File("download", ""))]

\* os.path.join(*([self.output_folder, 'files'] + list(path.split('/'))))
DstPath(url) == PathJoin(<<output_folder, <<"files">>>> \o Split(UrlPath(url), <<"/">>))

\* DstUrl with only the output folder dropped: [1:] for [2:]
DstUrl_keep_files(dst_path) ==
    <<"/">> \o Join(Drop(Split(dst_path, <<"/">>), 1), <<"/">>)

\* '/' + '/'.join(dst_path.split(os.sep)[2:])
DstUrl(dst_path) == <<"/">> \o Join(Drop(Split(dst_path, <<"/">>), 2), <<"/">>)

\* makedirs, the download, and the assignments links[k] = '/' + dst_url for
\* the keys given
Fetch(st, url, keys, failing) ==
    LET dst_path == DstPath(url)
        made == [st EXCEPT !.dirs = @ \cup Ancestors(Dirname(dst_path))]
        got == download_url_content_to_file(made, dst_path, failing)
    IN  [got EXCEPT !.links = [k \in DOMAIN @ \cup {Str(key) : key \in keys} |->
                                  IF k \in {Str(key) : key \in keys}
                                  THEN Str(DstUrl(dst_path)) ELSE @[k]]]

\* the loop over one metadata value's size variants
RECURSIVE SizeVariants(_, _, _, _)
SizeVariants(st, filenames, source_path, failing) ==
    IF filenames = <<>> THEN st
    ELSE LET url == Join(<<source_path, Head(filenames)>>, <<"/">>)
         IN  SizeVariants(Fetch(st, url, {url}, failing), Tail(filenames),
                          source_path, failing)

\* the loop over the postmeta elements; phpserialize.loads raises ValueError
\* on a value it cannot decode, and nothing catches it
RECURSIVE PostmetaLoop(_, _, _, _)
PostmetaLoop(st, elements, source_path, failing) ==
    IF elements = <<>> THEN st
    ELSE LET e == Head(elements)
             rest == Tail(elements)
         IN  IF e.meta_key # "_wp_attachment_metadata" \/ ~e.meta_value.present
             THEN PostmetaLoop(st, rest, source_path, failing)
             ELSE IF ~e.meta_value.decodable
             THEN [st EXCEPT !.raised = "ValueError"]
             ELSE IF ~e.meta_value.sizes
             THEN PostmetaLoop(st, rest, source_path, failing)
             ELSE PostmetaLoop(SizeVariants(st, e.meta_value.file, source_path, failing),
                               rest, source_path, failing)

download_additional_image_sizes(st, it, source_path, failing) ==
    IF ~phpserialize THEN st
    ELSE PostmetaLoop(st, it.postmeta, source_path, failing)

import_attachment(st, it, failing) ==
    download_additional_image_sizes(
        Fetch(st, it.attachment_url, {it.wp_link, it.attachment_url}, failing),
        it, Dirname(it.attachment_url), failing)

----------------------------------------------------------------------------
(* Item Classifier & Writer *)

\* unquote(path), by component: the one escape of these permalinks is %20
Unquote(path) ==
    [i \in DOMAIN path |-> IF path[i] = "Hello%20World" THEN "Hello World" ELSE path[i]]

\* utils.slugify of a path component: lower case, spaces to hyphens
slugify(value) ==
    [i \in DOMAIN value |-> IF value[i] = "Hello World" THEN "hello-world" ELSE value[i]]

\* utils.get_translation_candidate(context, slug + ".wp", lang) under the
\* default TRANSLATIONS_PATTERN "{path}.{lang}.{ext}"
get_translation_candidate(slug, lang) == slug \o <<".", lang, ".wp">>

\* unquote(urlparse(link).path.strip('/')).split('/')
Pathlist(it) == Split(Unquote(StripSlash(UrlPath(it.link))), <<"/">>)

\* Slug with the two fallbacks in the other order
Slug_id_first(it) ==
    LET pathlist == Pathlist(it)
        s1 == slugify(pathlist[Len(pathlist)])
        s2 == IF s1 = <<>> THEN it.post_id ELSE s1
    IN  IF s2 = <<>> THEN it.post_name ELSE s2

\* the slug: the last path segment, else wp:post_name, else wp:post_id
Slug(it) ==
    LET pathlist == Pathlist(it)
        s1 == slugify(pathlist[Len(pathlist)])
        s2 == IF s1 = <<>> THEN it.post_name ELSE s1
    IN  IF s2 = <<>> THEN it.post_id ELSE s2

\* out_folder, with the permalink's leading path segments below it
OutFolder(it, out_folder) ==
    LET pathlist == Pathlist(it)
    IN  IF Len(pathlist) > 1
        THEN PathJoin(<<out_folder>> \o SubSeq(pathlist, 1, Len(pathlist) - 1))
        ELSE out_folder

\* "$latex"
Latex == <<"$", "l", "a", "t", "e", "x">>

\* the tags of the metadata file (these items carry no category)
Tags(it) ==
    (IF it.status # "publish" THEN " draft" ELSE "")
    \o (IF Find(it.content, Latex) > 0 THEN " mathjax" ELSE "")

\* the content per language: the splitter's result, or the content itself
\* under the key ""
ContentTranslations(content) ==
    IF qtranslate THEN separate_qtranslate_content(content)
    ELSE Put(EmptyMap, "", content)

\* slug + '.wp', or the translation candidate for another language
OutContentFilename(slug, lang) ==
    IF lang # "" /\ lang # context.DEFAULT_LANG
    THEN get_translation_candidate(slug, lang) ELSE slug \o <<".wp">>

\* the branch of import_item that writes: the permalink goes to url_map, then
\* a metadata file and a content file are written per language
WriteItem(st, it, out_folder) ==
    LET slug == Slug(it)
        folder == OutFolder(it, out_folder)
        by_lang == ContentTranslations(it.content)
        meta_path == Str(PathJoin(<<output_folder, folder, slug \o <<".meta">>>>))
        content_path(l) ==
            Str(PathJoin(<<output_folder, folder, OutContentFilename(slug, l)>>))
        written == {content_path(l) : l \in DOMAIN by_lang}
                   \cup (IF DOMAIN by_lang = {} THEN {} ELSE {meta_path})
    IN  [st EXCEPT
            !.url_map = Put(@, Str(it.link),
                            context.SITE_URL \o Str(folder) \o "/" \o Str(slug) \o ".html"),
            !.files = [f \in DOMAIN @ \cup written |->
                          IF \E l \in DOMAIN by_lang : f = content_path(l)
                          THEN File("content",
                                    Str(transform_content(squash_newlines,
                                        by_lang[CHOOSE l \in DOMAIN by_lang :
                                                    f = content_path(l)])))
                          ELSE IF f = meta_path THEN File("meta", Str(slug) \o Tags(it))
                          ELSE @[f]]]

\* the state import_item works on
\* raised is the exception that has left the handler, "" when none has
Writer == [url_map |-> url_map, files |-> files, timezone |-> timezone, raised |-> ""]

\* import_item without the test for the status 'trash'
import_item_trashed(st, it, out_folder) ==
    IF Slug(it) = <<>> THEN st
    ELSE LET dated == [st EXCEPT !.timezone = IF it.tz # "" /\ @ = "" THEN it.tz ELSE @]
         IN  IF it.content = None THEN [dated EXCEPT !.raised = "TypeError"]
             ELSE IF it.status # "publish" /\ exclude_drafts THEN dated
             ELSE IF Strip(it.content) # <<>> THEN WriteItem(dated, it, out_folder)
             ELSE dated

\* import_item without the test 'self.timezone is None'
import_item_retimed(st, it, out_folder) ==
    IF Slug(it) = <<>> THEN st
    ELSE LET dated == [st EXCEPT !.timezone = IF it.tz # "" THEN it.tz ELSE @]
         IN  IF it.status = "trash" THEN dated
             ELSE IF it.content = None THEN [dated EXCEPT !.raised = "TypeError"]
             ELSE IF it.status # "publish" /\ exclude_drafts THEN dated
             ELSE IF Strip(it.content) # <<>> THEN WriteItem(dated, it, out_folder)
             ELSE dated

\* import_item without the test for a blank content
import_item_blank(st, it, out_folder) ==
    IF Slug(it) = <<>> THEN st
    ELSE LET dated == [st EXCEPT !.timezone = IF it.tz # "" /\ @ = "" THEN it.tz ELSE @]
         IN  IF it.status = "trash" THEN dated
             ELSE IF it.content = None THEN [dated EXCEPT !.raised = "TypeError"]
             ELSE IF it.status # "publish" /\ exclude_drafts THEN dated
             ELSE WriteItem(dated, it, out_folder)

\* the slug test, the timezone, the status test, then "'$latex' in content",
\* which raises TypeError for a content of None, then the tests for an
\* excluded draft and for a blank content
import_item(st, it, out_folder) ==
    IF Slug(it) = <<>> THEN st
    ELSE LET dated == [st EXCEPT !.timezone = IF it.tz # "" /\ @ = "" THEN it.tz ELSE @]
         IN  IF it.status = "trash" THEN dated
             ELSE IF it.content = None THEN [dated EXCEPT !.raised = "TypeError"]
             ELSE IF it.status # "publish" /\ exclude_drafts THEN dated
             ELSE IF Strip(it.content) # <<>> THEN WriteItem(dated, it, out_folder)
             ELSE dated

----------------------------------------------------------------------------
(* The import run: _execute, import_posts and process_item *)

\* what tag.find(name) gives for an element that is not there
Missing == <<"Missing">>

\* get_text_tag(tag, name, default), t being what tag.find(name) gives: the
\* default for a missing element, else the element's text, None when empty
get_text_tag(t, default) == IF t = Missing THEN default ELSE t

\* the channel of the export file: its link, language and wp:author elements
Channel == [link |-> <<"http:", "/", "/", "some.blog">>, language |-> <<"en", "-US">>,
            author |-> <<"admin">>]

\* "http://foo.com/"
FooCom == <<"http:", "/", "/", "foo.com", "/">>

\* context = {}; raised is the exception that has left populate_context
NoContext == [DEFAULT_LANG |-> "", BASE_URL |-> <<>>, SITE_URL |-> "", raised |-> ""]

\* context['DEFAULT_LANG'] = get_text_tag(channel, 'language', 'en')[:2];
\* None[:2] raises TypeError
ContextLanguage(c, channel) ==
    LET v == get_text_tag(channel.language, <<"en">>)
    IN  IF v = None THEN [c EXCEPT !.raised = "TypeError"]
        ELSE [c EXCEPT !.DEFAULT_LANG = Str(Take(v, 1))]

\* context['BASE_URL'] = get_text_tag(channel, 'link', '#') and, when that is
\* empty, get_text_tag(author, None, "http://foo.com/"): the default when
\* there is no wp:author element, else author.find(None), which raises
\* TypeError
ContextLink(c, channel) ==
    LET v == get_text_tag(channel.link, <<"#">>)
    IN  IF v # None /\ v # <<>> THEN [c EXCEPT !.BASE_URL = v]
        ELSE IF channel.author = Missing THEN [c EXCEPT !.BASE_URL = FooCom]
        ELSE [c EXCEPT !.raised = "TypeError"]

\* BASE_URL gets a trailing '/', SITE_URL is BASE_URL
ContextSlash(c) ==
    LET base_url == IF EndsWith(c.BASE_URL, <<"/">>) THEN c.BASE_URL
                    ELSE c.BASE_URL \o <<"/">>
    IN  [c EXCEPT !.BASE_URL = base_url, !.SITE_URL = Str(base_url)]

populate_context(channel) ==
    LET l == ContextLanguage(NoContext, channel)
        k == IF l.raised # "" THEN l ELSE ContextLink(l, channel)
    IN  IF k.raised # "" THEN k ELSE ContextSlash(k)

\* the folders given as output_folder: "out" and "sites/blog"
OutputFolders == {<<"out">>, <<"sites", "/", "blog">>}

\* the flags of the command: the defaults, or one option set; without
\* phpserialize the command runs under --no-downloads only
FlagSets ==
    {o \in [squash_newlines : BOOLEAN, exclude_drafts : BOOLEAN, no_downloads : BOOLEAN,
            qtranslate : BOOLEAN, phpserialize : BOOLEAN] :
        /\ Cardinality({f \in {"squash_newlines", "exclude_drafts", "no_downloads",
                               "qtranslate"} : o[f]}) <= 1
        /\ ~o.phpserialize => o.no_downloads}

\* the options of a run: any flags with the folder "out", the defaults with
\* the other folder
OptionSets ==
    {o \in [folder : OutputFolders, flags : FlagSets] :
        o.folder # <<"out">> =>
            /\ o.flags.phpserialize
            /\ \A f \in {"squash_newlines", "exclude_drafts", "no_downloads", "qtranslate"} :
                   ~o.flags[f]}

\* _execute up to the call of import_posts
RunInit ==
    /\ \E o \in OptionSets :
        /\ output_folder = o.folder
        /\ squash_newlines = o.flags.squash_newlines
        /\ exclude_drafts = o.flags.exclude_drafts
        /\ no_downloads = o.flags.no_downloads
        /\ qtranslate = o.flags.qtranslate
        /\ phpserialize = o.flags.phpserialize
    /\ context = populate_context(Channel)
    /\ url_map = EmptyMap
    /\ links = EmptyMap
    /\ timezone = ""
    /\ files = EmptyMap
    /\ dirs = {}
    /\ item = NoItem
    /\ n_items = 0
    /\ pc = "import"
    /\ url_map_csv = EmptyMap
    /\ first_tz = ""

\* the calls of requests.get an attachment item leads to
Fetches(it) ==
    1 + Cardinality({i \in DOMAIN it.postmeta : it.postmeta[i].meta_value.sizes})

optvars == <<output_folder, squash_newlines, exclude_drafts, no_downloads, qtranslate,
             phpserialize, context>>

\* process_item, post_type 'attachment'; failing: the fetches that end in a
\* ConnectionError.  An exception leaves import_posts and _execute.
ProcessAttachment ==
    /\ pc = "import" /\ n_items < MaxItems
    /\ \E it \in AttachmentItems :
       \E failing \in (IF no_downloads THEN {{}} ELSE SUBSET (1..Fetches(it))) :
       \E st \in {import_attachment(Resolver, it, failing)} :
             /\ item' = it
             /\ links' = st.links
             /\ files' = st.files
             /\ dirs' = st.dirs
             /\ pc' = IF st.raised # "" THEN "aborted" ELSE pc
             /\ first_tz' = IF first_tz = "" THEN it.tz ELSE first_tz
    /\ n_items' = n_items + 1
    /\ UNCHANGED <<optvars, url_map, timezone, url_map_csv, qtvars, capvars, gluevars,
                   tcvars, ctxvars>>

\* the state of the run with a writer's result stored
Written(it, result) ==
    \E st \in {result} :
    /\ item' = it
    /\ url_map' = st.url_map
    /\ files' = st.files
    /\ timezone' = st.timezone
    /\ pc' = IF st.raised # "" THEN "aborted" ELSE pc
    /\ first_tz' = IF first_tz = "" THEN it.tz ELSE first_tz
    /\ n_items' = n_items + 1
    /\ UNCHANGED <<optvars, links, dirs, url_map_csv, qtvars, capvars, gluevars,
                   tcvars, ctxvars>>

\* process_item, post_type 'post'
ProcessPost ==
    /\ pc = "import" /\ n_items < MaxItems
    /\ \E it \in {p \in PostItems : p.post_type = "post"} :
         Written(it, import_item(Writer, it, <<"posts">>))

\* process_item, any other post_type
ProcessPage ==
    /\ pc = "import" /\ n_items < MaxItems
    /\ \E it \in {p \in PostItems : p.post_type \notin {"attachment", "post"}} :
         Written(it, import_item(Writer, it, <<"stories">>))

\* WriteUrlMap with the attachments' entries written too
WriteUrlMap_all ==
    /\ pc = "import"
    /\ url_map_csv' = [k \in DOMAIN url_map \cup DOMAIN links |->
                          IF k \in DOMAIN url_map THEN url_map[k] ELSE links[k]]
    /\ pc' = "done"
    /\ UNCHANGED <<optvars, url_map, links, timezone, files, dirs, item, n_items, first_tz,
                   qtvars, capvars, gluevars,
                   tcvars, ctxvars>>

\* _execute after import_posts: write_urlmap_csv is given self.url_map
WriteUrlMap ==
    /\ pc = "import"
    /\ url_map_csv' = url_map
    /\ pc' = "done"
    /\ UNCHANGED <<optvars, url_map, links, timezone, files, dirs, item, n_items, first_tz,
                   qtvars, capvars, gluevars,
                   tcvars, ctxvars>>

----------------------------------------------------------------------------
(* separate_qtranslate_content, chunk by chunk *)

\* how many pieces a text without marker has, and how many marked sections
MaxPlain == 3
MaxSections == 3

Seqs(S, k) == UNION {[1..m -> S] : m \in 0..k}

RECURSIVE Concat(_)
Concat(list) == IF list = <<>> THEN <<>> ELSE Head(list) \o Concat(Tail(list))

\* pieces of text that hold no "<!--:"
PlainPieces ==
    {<<"A">>,
     <<" ">>,
     <<"-", "-", ">">>,
     <<"e", "n">>,
     <<"-">>}

\* what follows a "<!--:": a closing token and common text, a language code
\* with its text, or neither
SectionBodies ==
    {<<"-", "-", ">">>,
     <<"-", "-", ">", "A">>,
     <<"-", "-", ">", "-", "B">>,
     <<"-", "-", ">", " ">>,
     <<"e", "n", "-", "-", ">", "A">>,
     <<"e", "n", "-", "-", ">", " ">>,
     <<"f", "r", "-", "-", ">", "B">>,
     <<"C">>}

Sections == {qt_start \o b : b \in SectionBodies}

\* '<!--:en-->Hello<!--:--><!--:fr-->Bonjour<!--:-->'
HelloBonjour == <<"<", "!", "-", "-", ":", "e", "n", "-", "-", ">", "H", "e", "l", "l", "o", "<", "!", "-", "-", ":", "-", "-", ">", "<", "!", "-", "-", ":", "f", "r", "-", "-", ">", "B", "o", "n", "j", "o", "u", "r", "<", "!", "-", "-", ":", "-", "-", ">">>

QtTexts ==
    {Concat(ps) : ps \in Seqs(PlainPieces, MaxPlain)}
    \cup {l \o Concat(ss) : l \in {<<>>, <<"C">>}, ss \in Seqs(Sections, MaxSections)}
    \cup {HelloBonjour}

QtIdle ==
    /\ qt_text = <<>> /\ qt_chunks = <<>> /\ qt_i = 0 /\ content_by_lang = EmptyMap
    /\ common_txt_list = <<>> /\ qt_result = EmptyMap /\ qt_pc = "off"

QtCall ==
    /\ qt_text \in QtTexts /\ qt_chunks = <<>> /\ qt_i = 0 /\ content_by_lang = EmptyMap
    /\ common_txt_list = <<>> /\ qt_result = EmptyMap /\ qt_pc = "call"

\* the statements before the loop
QtEnter ==
    /\ qt_pc = "call"
    /\ qt_chunks' = Split(qt_text, qt_start)
    /\ content_by_lang' = QtInit.content_by_lang
    /\ common_txt_list' = QtInit.common_txt_list
    /\ qt_i' = 1
    /\ qt_pc' = "loop"
    /\ UNCHANGED <<qt_text, qt_result, runvars, capvars, gluevars,
                   tcvars, ctxvars>>

\* one turn of the loop
QtStep ==
    /\ qt_pc = "loop" /\ qt_i <= Len(qt_chunks)
    /\ \E st \in {QtBody([common_txt_list |-> common_txt_list,
                          content_by_lang |-> content_by_lang], qt_chunks[qt_i])} :
        /\ content_by_lang' = st.content_by_lang
        /\ common_txt_list' = st.common_txt_list
    /\ qt_i' = qt_i + 1
    /\ UNCHANGED <<qt_text, qt_chunks, qt_result, qt_pc, runvars, capvars, gluevars,
                   tcvars, ctxvars>>

\* the statements after the loop
QtReturn ==
    /\ qt_pc = "loop" /\ qt_i > Len(qt_chunks)
    /\ qt_result' = QtFinish([common_txt_list |-> common_txt_list,
                              content_by_lang |-> content_by_lang])
    /\ qt_pc' = "returned"
    /\ UNCHANGED <<qt_text, qt_chunks, qt_i, content_by_lang, common_txt_list, runvars,
                   capvars, gluevars, tcvars, ctxvars>>

----------------------------------------------------------------------------
(* transform_caption *)

\* how many pieces a content has
MaxPieces == 4

CaptionPieces ==
    {<<"[", "c", "a", "p", "t", "i", "o", "n">>,
     <<" ", "i", "d", "=", "1">>,
     <<"]">>,
     <<"[", "/", "c", "a", "p", "t", "i", "o", "n", "]">>,
     <<"H", "i">>,
     <<"[">>,
     <<"\n">>}

CaptionTexts == {Concat(ps) : ps \in Seqs(CaptionPieces, MaxPieces)}

CapIdle == cap_content = <<>> /\ new_caption = <<>> /\ cap_pc = "off"

CapCall == cap_content \in CaptionTexts /\ new_caption = <<>> /\ cap_pc = "call"

TransformCaption ==
    /\ cap_pc = "call"
    /\ new_caption' = transform_caption(cap_content)
    /\ cap_pc' = "returned"
    /\ UNCHANGED <<cap_content, runvars, qtvars, gluevars, tcvars, ctxvars>>

----------------------------------------------------------------------------
(* transform_content, applied twice *)

\* how many pieces a content has
MaxParts == 3

ContentPieces ==
    {<<"\n">>,
     <<"\n", "\n">>,
     <<"a">>,
     <<"]">>,
     CAP_OPEN,
     CAP_CLOSE,
     SC_OPEN \o <<"p", "y", "\"", "]">>,
     SC_CLOSE}

ContentTexts == {Concat(ps) : ps \in Seqs(ContentPieces, MaxParts)}

TcIdle == tc_content = <<>> /\ tc_once = <<>> /\ tc_twice = <<>> /\ tc_pc = "off"

TcCall == tc_content \in ContentTexts /\ tc_once = <<>> /\ tc_twice = <<>> /\ tc_pc = "call"

TransformContent ==
    /\ tc_pc = "call"
    /\ tc_once' = transform_content(squash_newlines, tc_content)
    /\ tc_pc' = "once"
    /\ UNCHANGED <<tc_content, tc_twice, runvars, qtvars, capvars, gluevars, ctxvars>>

TransformContentAgain ==
    /\ tc_pc = "once"
    /\ tc_twice' = transform_content(squash_newlines, tc_once)
    /\ tc_pc' = "twice"
    /\ UNCHANGED <<tc_content, tc_once, runvars, qtvars, capvars, gluevars, ctxvars>>

----------------------------------------------------------------------------
(* _glue_xml_lines *)

\* how many lines the list has
MaxLines == 4

\* lines that start with a space or a tab or neither, and end in a newline
\* or not
XmlLines ==
    {<<"a", "\n">>,
     <<" ", "b", "\n">>,
     <<"\t", "c", "\n">>,
     <<"a">>,
     <<" ", "b">>}

XmlLists == Seqs(XmlLines, MaxLines) \ {<<>>}

\* re.match(b'^[ \t]+', line)
Indented(line) == line # <<>> /\ Head(line) \in {" ", "\t"}

GlueIdle ==
    /\ xml = <<>> /\ glue_i = 0 /\ new_xml = <<>> /\ glue_pc = "off"
    /\ previous_line_ended_in_newline = FALSE /\ previous_line_was_indentet = FALSE

GlueCall ==
    /\ xml \in XmlLists /\ glue_i = 0 /\ new_xml = <<>> /\ glue_pc = "call"
    /\ previous_line_ended_in_newline = FALSE /\ previous_line_was_indentet = FALSE

\* the statements before the loop
GlueEnter ==
    /\ glue_pc = "call"
    /\ new_xml' = xml[1]
    /\ previous_line_ended_in_newline' = EndsWith(xml[1], <<"\n">>)
    /\ previous_line_was_indentet' = FALSE
    /\ glue_i' = 2
    /\ glue_pc' = "loop"
    /\ UNCHANGED <<xml, runvars, qtvars, capvars, tcvars, ctxvars>>

\* GlueLine without the elif branch
GlueLine_no_elif(buffer, line, ended_in_newline, was_indentet) ==
    IF Indented(line) /\ ended_in_newline
    THEN [new_xml |-> buffer \o line, was_indentet |-> TRUE]
    ELSE [new_xml |-> buffer \o <<"\n">> \o line, was_indentet |-> FALSE]

\* the line glued to the buffer: new_xml and previous_line_was_indentet
\* after the if statement
GlueLine(buffer, line, ended_in_newline, was_indentet) ==
    IF Indented(line) /\ ended_in_newline
    THEN [new_xml |-> buffer \o line, was_indentet |-> TRUE]
    ELSE IF was_indentet
    THEN [new_xml |-> buffer \o line, was_indentet |-> FALSE]
    ELSE [new_xml |-> buffer \o <<"\n">> \o line, was_indentet |-> FALSE]

\* one turn of the loop
GlueStep ==
    /\ glue_pc = "loop" /\ glue_i <= Len(xml)
    /\ \E g \in {GlueLine(new_xml, xml[glue_i], previous_line_ended_in_newline,
                          previous_line_was_indentet)} :
        /\ new_xml' = g.new_xml
        /\ previous_line_was_indentet' = g.was_indentet
    /\ previous_line_ended_in_newline' = EndsWith(xml[glue_i], <<"\n">>)
    /\ glue_i' = glue_i + 1
    /\ UNCHANGED <<xml, glue_pc, runvars, qtvars, capvars, tcvars, ctxvars>>

GlueReturn ==
    /\ glue_pc = "loop" /\ glue_i > Len(xml)
    /\ glue_pc' = "returned"
    /\ UNCHANGED <<xml, glue_i, new_xml, previous_line_ended_in_newline,
                   previous_line_was_indentet, runvars, qtvars, capvars, tcvars, ctxvars>>

----------------------------------------------------------------------------
(* populate_context, statement by statement *)

\* the link, language and wp:author elements a channel may have
ChannelLinks ==
    {Missing, None, <<"http:", "/", "/", "some.blog">>, <<"http:", "/", "/", "some.blog", "/">>,
     <<"https:", "/", "/", "b.org", "/", "blog">>}

ChannelLanguages == {Missing, None, <<"en", "-US">>, <<"fr">>}

ChannelAuthors == {Missing, <<"admin">>}

Channels == [link : ChannelLinks, language : ChannelLanguages, author : ChannelAuthors]

CtxIdle == ctx_channel = Channel /\ ctx = NoContext /\ ctx_pc = "off"

CtxCall == ctx_channel \in Channels /\ ctx = NoContext /\ ctx_pc = "call"

\* the state of the call after a statement that may raise
CtxNext(c, then) ==
    /\ ctx' = c
    /\ ctx_pc' = IF c.raised # "" THEN "raised" ELSE then
    /\ UNCHANGED <<ctx_channel, runvars, qtvars, capvars, gluevars, tcvars>>

CtxLanguage == ctx_pc = "call" /\ CtxNext(ContextLanguage(ctx, ctx_channel), "language")

CtxLink == ctx_pc = "language" /\ CtxNext(ContextLink(ctx, ctx_channel), "link")

CtxSlash == ctx_pc = "link" /\ CtxNext(ContextSlash(ctx), "returned")

----------------------------------------------------------------------------
(* Specifications *)

\* no run of the command: its fields, but for squash_newlines
RunOff ==
    /\ output_folder = <<"out">> /\ exclude_drafts = FALSE
    /\ no_downloads = FALSE /\ qtranslate = FALSE /\ phpserialize = TRUE
    /\ context = populate_context(Channel) /\ url_map = EmptyMap /\ links = EmptyMap
    /\ timezone = "" /\ files = EmptyMap /\ dirs = {} /\ item = NoItem /\ n_items = 0
    /\ pc = "off" /\ url_map_csv = EmptyMap /\ first_tz = ""

RunIdle == squash_newlines = FALSE /\ RunOff

\* a run of the import command
Init == RunInit /\ QtIdle /\ CapIdle /\ GlueIdle /\ TcIdle /\ CtxIdle

Next == ProcessAttachment \/ ProcessPost \/ ProcessPage \/ WriteUrlMap

Spec == Init /\ [][Next]_vars

\* a call of separate_qtranslate_content
InitQt == RunIdle /\ QtCall /\ CapIdle /\ GlueIdle /\ TcIdle /\ CtxIdle

NextQt == QtEnter \/ QtStep \/ QtReturn

SpecQt == InitQt /\ [][NextQt]_vars

\* a call of transform_caption
InitCaption == RunIdle /\ QtIdle /\ CapCall /\ GlueIdle /\ TcIdle /\ CtxIdle

NextCaption == TransformCaption

SpecCaption == InitCaption /\ [][NextCaption]_vars

\* a call of _glue_xml_lines
InitGlue == RunIdle /\ QtIdle /\ CapIdle /\ GlueCall /\ TcIdle /\ CtxIdle

NextGlue == GlueEnter \/ GlueStep \/ GlueReturn

SpecGlue == InitGlue /\ [][NextGlue]_vars

\* transform_content under either setting of squash_newlines
InitContent ==
    /\ squash_newlines \in BOOLEAN /\ RunOff
    /\ QtIdle /\ CapIdle /\ GlueIdle /\ TcCall /\ CtxIdle

NextContent == TransformContent \/ TransformContentAgain

SpecContent == InitContent /\ [][NextContent]_vars

\* a call of populate_context
InitContext == RunIdle /\ QtIdle /\ CapIdle /\ GlueIdle /\ TcIdle /\ CtxCall

NextContext == CtxLanguage \/ CtxLink \/ CtxSlash

SpecContext == InitContext /\ [][NextContext]_vars

----------------------------------------------------------------------------
(* Claims about the import run, checked under Spec *)

\* the step taken is process_item on the item item'
Processed == n_items' = n_items + 1

\* C1: a post or page whose status is 'trash' adds no entry to url_map (nor
\* to links) and no file is written for it, whatever its content, permalink
\* and other fields are.
C1_TrashWritesNothing ==
    [][(Processed /\ item'.status = "trash")
          => (url_map' = url_map /\ links' = links /\ files' = files)]_vars

\* a trashed post with a slug and a body, after items that wrote
C1_Witness ==
    /\ n_items > 1 /\ item.status = "trash"
    /\ Slug(item) # <<>> /\ Strip(item.content) # <<>>
    /\ DOMAIN url_map # {} /\ DOMAIN files # {}

\* the attachment URLs whose path starts with '/'
Rooted(url) == StartsWith(UrlPath(url), <<"/">>)

\* the last item handled is an attachment with such a URL
C2_Case == n_items > 0 /\ item.post_type = "attachment" /\ Rooted(item.attachment_url)

\* C2 as claimed: for an attachment URL of path P and the output root R the
\* file goes to R/files/P and both the attachment URL and the sibling link
\* have the value '/files' + P.
C2_Claimed ==
    C2_Case =>
        LET P == Str(UrlPath(item.attachment_url))
        IN  /\ Str(DstPath(item.attachment_url)) = Str(output_folder) \o "/files" \o P
            /\ links[Str(item.attachment_url)] = "/files" \o P
            /\ links[Str(item.wp_link)] = "/files" \o P

\* R/files/P without its first two path components, after a '/'
C2_Value(R, P) ==
    Str(<<"/">> \o Join(Drop(Split(R \o <<"/", "files">> \o P, <<"/">>), 2), <<"/">>))

\* C2, amended: the file goes to R/files/P, and both URLs have one value: '/'
\* and R/files/P without its first two components.  For the root 'out' and
\* http://site/wp-content/2012/09/a.jpg the file is
\* out/files/wp-content/2012/09/a.jpg and the value /wp-content/2012/09/a.jpg.
C2_Amended ==
    C2_Case =>
        LET P == UrlPath(item.attachment_url)
        IN  /\ Str(DstPath(item.attachment_url)) = Str(output_folder) \o "/files" \o Str(P)
            /\ links[Str(item.attachment_url)] = C2_Value(output_folder, P)
            /\ links[Str(item.wp_link)] = C2_Value(output_folder, P)
            /\ (output_folder = <<"out">> /\ item.attachment_url = UrlA
                  /\ item.wp_link = LinkA) =>
                  /\ Str(DstPath(item.attachment_url)) = "out/files/wp-content/2012/09/a.jpg"
                  /\ links["http://site/wp-content/2012/09/a.jpg"] = "/wp-content/2012/09/a.jpg"
                  /\ links["http://site/?attachment_id=5"] = "/wp-content/2012/09/a.jpg"

\* the attachment of the example, under the root 'out'
C2_Witness ==
    /\ C2_Case /\ output_folder = <<"out">> /\ item.attachment_url = UrlA
    /\ "http://site/wp-content/2012/09/a.jpg" \in DOMAIN links

\* the item carries a _wp_attachment_metadata value, and each one it carries
\* is undecodable or decodes to a structure without 'sizes'
NoSizesToFind(it) ==
    LET values == {it.postmeta[i].meta_value : i \in
                      {j \in DOMAIN it.postmeta :
                          /\ it.postmeta[j].meta_key = "_wp_attachment_metadata"
                          /\ it.postmeta[j].meta_value.present}}
    IN  /\ it.post_type = "attachment"
        /\ values # {}
        /\ \A v \in values : ~v.decodable \/ ~v.sizes

\* C3: for such an item nothing is raised and no size variant is recorded:
\* the attachment's own two entries are recorded and the loop goes on.
C3_Claimed ==
    [][(Processed /\ phpserialize /\ NoSizesToFind(item'))
          => /\ pc' = "import"
             /\ DOMAIN links' = DOMAIN links \cup {Str(item'.attachment_url),
                                                    Str(item'.wp_link)}]_vars

\* C4: for every attachment item, with each fetch succeeding, failing by a
\* ConnectionError or skipped, both URLs are recorded with one value and the
\* run goes on with the next item.
C4_Claimed ==
    [][(Processed /\ item'.post_type = "attachment")
          => /\ {Str(item'.attachment_url), Str(item'.wp_link)} \subseteq DOMAIN links'
             /\ links'[Str(item'.attachment_url)] = links'[Str(item'.wp_link)]
             /\ pc' = "import"]_vars

\* C5 as claimed: the mapping written to url_map.csv has a row for every
\* entry recorded in the run: permalinks, attachment URLs, sibling links and
\* size variants.
C5_Claimed ==
    pc = "done" =>
        /\ \A k \in DOMAIN url_map : k \in DOMAIN url_map_csv /\ url_map_csv[k] = url_map[k]
        /\ \A k \in DOMAIN links : k \in DOMAIN url_map_csv /\ url_map_csv[k] = links[k]

\* the item was written by import_item
WasWritten(it) ==
    /\ it.post_type \in {"post", "page"} /\ Slug(it) # <<>> /\ it.status # "trash"
    /\ it.content # None
    /\ ~(it.status # "publish" /\ exclude_drafts) /\ Strip(it.content) # <<>>

\* C5, amended: the mapping written to url_map.csv is url_map, which holds
\* the permalinks of the written posts and pages only; the attachment URLs,
\* sibling links and size variants are recorded in the other mapping, links,
\* and get no row.
C5_Amended ==
    pc = "done" =>
        /\ url_map_csv = url_map
        /\ DOMAIN url_map_csv \subseteq {Str(p.link) : p \in PostItems}
        /\ (n_items > 0 /\ WasWritten(item)) => Str(item.link) \in DOMAIN url_map_csv
        /\ \A k \in DOMAIN links : k \notin DOMAIN url_map_csv

\* a finished run that has recorded a permalink and an attachment
C5_Witness ==
    /\ pc = "done" /\ DOMAIN url_map_csv # {} /\ DOMAIN links # {}
    /\ n_items > 0 /\ WasWritten(item)

\* C11 as claimed: the two mappings of the run only grow: no key is removed,
\* and a key that is present is never assigned a value different from the
\* one it holds.
C11_Claimed ==
    [][/\ \A k \in DOMAIN url_map : k \in DOMAIN url_map' /\ url_map'[k] = url_map[k]
       /\ \A k \in DOMAIN links : k \in DOMAIN links' /\ links'[k] = links[k]]_vars

\* the keys import_attachment and download_additional_image_sizes assign for
\* an attachment item
AttachmentKeys(it) ==
    {Str(it.attachment_url), Str(it.wp_link)}
    \cup UNION {{Str(Join(<<Dirname(it.attachment_url), f[j]>>, <<"/">>)) : j \in DOMAIN f} :
                    f \in {it.postmeta[i].meta_value.file : i \in DOMAIN it.postmeta}}

\* C11, amended: no key is ever removed from either mapping; a key that is
\* present changes its value only when a later item is recorded under the
\* same key (a post or page with the same permalink, an attachment with the
\* same URL or link, such as the default 'foo'), and then the last write wins.
C11_Amended ==
    [][/\ DOMAIN url_map \subseteq DOMAIN url_map'
       /\ DOMAIN links \subseteq DOMAIN links'
       /\ \A k \in DOMAIN url_map :
              url_map'[k] # url_map[k]
                  => /\ Processed /\ WasWritten(item') /\ k = Str(item'.link)
                     /\ url_map'[k] = context.SITE_URL
                                         \o Str(OutFolder(item', IF item'.post_type = "post"
                                                                 THEN <<"posts">>
                                                                 ELSE <<"stories">>))
                                         \o "/" \o Str(Slug(item')) \o ".html"
       /\ \A k \in DOMAIN links :
              links'[k] # links[k]
                  => /\ Processed /\ item'.post_type = "attachment"
                     /\ k \in AttachmentKeys(item')]_vars

\* a post and a page of one permalink both written: one key, the page's value
C11_Witness ==
    /\ n_items = 2 /\ item.post_type = "page" /\ WasWritten(item)
    /\ Cardinality(DOMAIN url_map) = 1
    /\ "out/posts/9.wp" \in DOMAIN files
    /\ url_map[Str(item.link)] = "http://some.blog/stories/about.html"

\* the item is a draft while drafts are excluded
ExcludedDraft(it) == it.status \notin {"publish", "trash"} /\ exclude_drafts

\* the item's content is empty or whitespace only
BlankContent(it) == it.content = None \/ Strip(it.content) = <<>>

\* C12: a post or page that is an excluded draft, or whose content is empty
\* or whitespace only, gets no metadata file, no content file and no url_map
\* entry; the permalink is registered only for an item that is not trashed,
\* has a slug, is no excluded draft and has a non-blank content (and for
\* each such item).
C12_BlankOrDraftSkipped ==
    [][(Processed /\ item'.post_type \in {"post", "page"})
          => /\ (ExcludedDraft(item') \/ BlankContent(item'))
                   => (files' = files /\ url_map' = url_map)
             /\ url_map' # url_map
                   => /\ item'.status # "trash" /\ Slug(item') # <<>>
                      /\ ~ExcludedDraft(item') /\ ~BlankContent(item')
             /\ WasWritten(item') => Str(item'.link) \in DOMAIN url_map']_vars

\* a published post with a slug and a whitespace-only content, handled after
\* a post that was written: nothing was added for it
C12_Witness ==
    /\ n_items = 2 /\ pc = "import" /\ item.post_type = "post"
    /\ item.status = "publish" /\ item.content = Blank /\ Slug(item) # <<>>
    /\ Cardinality(DOMAIN url_map) = 1 /\ Str(item.link) \notin DOMAIN url_map

\* the last segment of the permalink's path, slugified
LastSegment(it) ==
    LET path == Split(Unquote(StripSlash(UrlPath(it.link))), <<"/">>)
    IN  slugify(path[Len(path)])

\* the folder of import_item's caller
Folder(it) == IF it.post_type = "post" THEN <<"posts">> ELSE <<"stories">>

\* C13: the slug is the slugified last segment of the permalink path, else
\* wp:post_name, else wp:post_id (seen in the URL and the file names of a
\* written item); an item with none of the three is skipped: no file, no
\* url_map entry, and the import goes on with the next item.
C13_SlugFallback ==
    [][(Processed /\ item'.post_type \in {"post", "page"})
          => LET it == item'
                 slug == IF LastSegment(it) # <<>> THEN LastSegment(it)
                         ELSE IF it.post_name # <<>> THEN it.post_name
                         ELSE it.post_id
                 folder == Str(OutFolder(it, Folder(it)))
             IN  /\ WasWritten(it)
                    => url_map'[Str(it.link)]
                          = context.SITE_URL \o folder \o "/" \o Str(slug) \o ".html"
                 /\ DOMAIN files' # DOMAIN files
                    => /\ (Str(output_folder) \o "/" \o folder \o "/" \o Str(slug) \o ".meta")
                              \in DOMAIN files'
                       /\ files'[Str(output_folder) \o "/" \o folder \o "/" \o Str(slug)
                                     \o ".meta"].data
                             = Str(slug) \o Tags(it)
                 /\ slug = <<>>
                    => /\ files' = files /\ url_map' = url_map /\ timezone' = timezone
                       /\ pc' = "import"]_vars

\* an item without path segment, post_name and post_id, skipped after a
\* page that took its slug from wp:post_name, and the run goes on
C13_Witness ==
    /\ n_items = 2 /\ pc = "import"
    /\ LastSegment(item) = <<>> /\ item.post_name = <<>> /\ item.post_id = <<>>
    /\ item.post_type = "page" /\ item.status = "publish"
    /\ DOMAIN url_map = {"http://some.blog/"}
    /\ url_map["http://some.blog/"] = "http://some.blog/stories/about.html"
    /\ DOMAIN files = {"out/stories/about.meta", "out/stories/about.wp"}

\* C14 as claimed: the timezone is that of the first item, in document
\* order, whose publish date carries timezone information (and so, once set,
\* never changes).
C14_Claimed == timezone # "" => timezone = first_tz

\* import_item reaches its timezone test for the item
Dated(it) == it.post_type \in {"post", "page"} /\ Slug(it) # <<>>

\* C14, amended: the timezone is assigned at most once per run, and once set
\* never changes; its value is the timezone of the first post or page, in
\* document order, that has a slug and whose publish date carries timezone
\* information, whatever its status and content; attachments and items
\* without a slug never set it.
C14_Amended ==
    [][/\ timezone # "" => timezone' = timezone
       /\ timezone' # timezone => (Processed /\ Dated(item') /\ timezone' = item'.tz)
       /\ (Processed /\ timezone = "" /\ Dated(item')) => timezone' = item'.tz
       /\ (Processed /\ ~Dated(item')) => timezone' = timezone]_vars

\* an attachment dated in UTC, then a post dated in Europe/Zurich
C14_Witness ==
    /\ n_items = 2 /\ first_tz = "UTC" /\ timezone = "Europe/Zurich"
    /\ item.post_type = "post" /\ item.tz = "Europe/Zurich"

\* C17: whenever import_item registers an item's permalink in url_map, the
\* same step writes a metadata file and at least one content file for it,
\* with the qtranslate option on or off.
C17_Claimed ==
    [][(Processed /\ item'.post_type \in {"post", "page"}
          /\ Str(item'.link) \in DOMAIN url_map' /\ WasWritten(item'))
          => LET base == Str(output_folder) \o "/" \o Str(OutFolder(item', Folder(item')))
                            \o "/" \o Str(Slug(item'))
             IN  /\ (base \o ".meta") \in DOMAIN files'
                 /\ \E f \in {base \o ".wp", base \o ".en.wp", base \o ".fr.wp"} :
                        f \in DOMAIN files']_vars

\* the value import_attachment records for a URL when the output root is root
LinkValueUnder(root, url) ==
    Str(DstUrl(PathJoin(<<root, <<"files">>>> \o Split(UrlPath(url), <<"/">>))))

\* the URLs of the size variants of an attachment item
VariantUrls(it) ==
    UNION {{Join(<<Dirname(it.attachment_url), f[j]>>, <<"/">>) : j \in DOMAIN f} :
              f \in {it.postmeta[i].meta_value.file : i \in DOMAIN it.postmeta}}

\* C18: the value recorded for an attachment and for each size variant is
\* determined by the source URL alone: it is the value a run with any other
\* output root records for the same key, whatever the number of path
\* components of the root.
C18_Claimed ==
    (n_items > 0 /\ item.post_type = "attachment")
        => \A root \in OutputFolders :
              /\ links[Str(item.attachment_url)] = LinkValueUnder(root, item.attachment_url)
              /\ links[Str(item.wp_link)] = links[Str(item.attachment_url)]
              /\ \A v \in VariantUrls(item) :
                     Str(v) \in DOMAIN links => links[Str(v)] = LinkValueUnder(root, v)

----------------------------------------------------------------------------
(* Claims about separate_qtranslate_content, checked under SpecQt *)

\* the mapping with its texts spelled out
Spelled(m) == [l \in DOMAIN m |-> Str(m[l])]

NoMarker(t) == Find(t, qt_start) = 0

\* C6 as claimed: for every text without a "<!--:" the mapping returned has
\* exactly one entry, keyed by the empty string, and its value is the text.
C6_Claimed ==
    (qt_pc = "returned" /\ NoMarker(qt_text))
        => (DOMAIN qt_result = {""} /\ qt_result[""] = qt_text)

\* C6, amended: for a text without a "<!--:": a blank text gives the empty
\* mapping; a text that starts with the closing token "-->" gives the text
\* without its leading '-' and '>' characters under the key "" (the empty
\* mapping when nothing is left); a text with "-->" after its first two
\* characters gives one entry, keyed by those two characters, holding what
\* follows the token; every other text gives exactly one entry, keyed by the
\* empty string, whose value is the text.
C6_Amended ==
    (qt_pc = "returned" /\ NoMarker(qt_text))
        => IF Strip(qt_text) = <<>> THEN DOMAIN qt_result = {}
           ELSE IF StartsWith(qt_text, qt_end)
           THEN LET rest == LStrip(qt_text, {"-", ">"})
                IN  IF rest = <<>> THEN DOMAIN qt_result = {}
                    ELSE DOMAIN qt_result = {""} /\ qt_result[""] = rest
           ELSE IF StartsWith(Drop(qt_text, 2), qt_end)
           THEN /\ DOMAIN qt_result = {Str(Take(qt_text, 2))}
                /\ qt_result[Str(Take(qt_text, 2))] = Drop(qt_text, Len(qt_end) + 2)
           ELSE DOMAIN qt_result = {""} /\ qt_result[""] = qt_text

\* a text of several pieces, a closing token within, returned whole
C6_Witness ==
    /\ qt_pc = "returned" /\ NoMarker(qt_text) /\ Find(qt_text, qt_end) > 2
    /\ DOMAIN qt_result = {""} /\ qt_result[""] = qt_text

\* the language a chunk is marked for: its first two characters when the
\* closing token follows them, "" when the chunk is marked for none
MarkedFor(chunk) ==
    IF Len(chunk) >= 5 /\ SubSeq(chunk, 3, 5) = qt_end THEN Str(SubSeq(chunk, 1, 2)) ELSE ""

\* C7: the text of a chunk marked for a language is appended to that
\* language only: the turn of the loop changes the list of no other
\* language; and '<!--:en-->Hello<!--:--><!--:fr-->Bonjour<!--:-->' gives
\* exactly {'en': 'Hello', 'fr': 'Bonjour'}.
C7_NoCrossContamination ==
    /\ [][(qt_pc = "loop" /\ qt_i' = qt_i + 1 /\ MarkedFor(qt_chunks[qt_i]) # "")
             => \A m \in DOMAIN content_by_lang' \ {MarkedFor(qt_chunks[qt_i])} :
                    m \in DOMAIN content_by_lang
                    /\ content_by_lang'[m] = content_by_lang[m]]_vars
    /\ [](qt_pc = "returned" /\ qt_text = HelloBonjour
            => Spelled(qt_result) = [en |-> "Hello", fr |-> "Bonjour"])

\* two languages, each with a text of its own, returned
C7_Witness ==
    /\ qt_pc = "returned" /\ DOMAIN qt_result = {"en", "fr"}
    /\ qt_result["en"] # qt_result["fr"]

\* the chunks among the first k that the loop keeps for language l, in
\* document order: the common ones and the ones marked for l
RECURSIVE KeptFor(_, _, _)
KeptFor(chunks, k, l) ==
    IF k = 0 THEN <<>>
    ELSE LET c == QtChunk(chunks[k])
         IN  KeptFor(chunks, k - 1, l)
             \o (IF ~c.skip /\ c.lang \in {"", l} THEN <<c.c>> ELSE <<>>)

\* C8: every language seen holds each common chunk exactly once, in document
\* order among its own chunks, whether the language was first seen before
\* the common chunk or after it; the mapping returned is these lists joined.
C8_CommonTextShared ==
    /\ qt_pc \in {"loop", "returned"} =>
          \A l \in DOMAIN content_by_lang :
              content_by_lang[l] = KeptFor(qt_chunks, qt_i - 1, l)
    /\ (qt_pc = "returned" /\ DOMAIN content_by_lang # {}) =>
          /\ DOMAIN qt_result = DOMAIN content_by_lang
          /\ \A l \in DOMAIN qt_result :
                 qt_result[l] = Join(KeptFor(qt_chunks, Len(qt_chunks), l), <<" ">>)

\* common text before the first chunk of one language and after the first
\* chunk of another
C8_Witness ==
    /\ qt_pc = "returned" /\ DOMAIN content_by_lang = {"en", "fr"}
    /\ Len(common_txt_list) >= 2
    /\ \E k \in 2..(Len(qt_chunks) - 1) :
          /\ MarkedFor(qt_chunks[k]) = ""
          /\ ~QtChunk(qt_chunks[k]).skip
          /\ \E i \in 1..(k - 1) : MarkedFor(qt_chunks[i]) = "en"
          /\ \A i \in 1..(k - 1) : MarkedFor(qt_chunks[i]) # "fr"
          /\ \E j \in (k + 1)..Len(qt_chunks) : MarkedFor(qt_chunks[j]) = "fr"

\* C19: for a chunk that starts with the closing token "-->", the common
\* text accumulated is the chunk without exactly these three characters
\* (nothing is accumulated when nothing is left): no further leading
\* character is dropped, also when the text begins with '-' or '>'.
C19_Claimed ==
    [][(qt_pc = "loop" /\ qt_i' = qt_i + 1 /\ Strip(qt_chunks[qt_i]) # <<>>
          /\ StartsWith(qt_chunks[qt_i], qt_end))
          => LET c == Drop(qt_chunks[qt_i], Len(qt_end))
             IN  common_txt_list' = IF c = <<>> THEN common_txt_list
                                    ELSE Append(common_txt_list, c)]_vars

----------------------------------------------------------------------------
(* The claim about transform_caption, checked under SpecCaption *)

\* the text without each '[/caption]' and without each opening marker: a
\* '[caption', its attributes and the ']' that closes it
RECURSIVE WithoutMarkers(_)
WithoutMarkers(t) ==
    IF t = <<>> THEN <<>>
    ELSE IF StartsWith(t, CAP_CLOSE) THEN WithoutMarkers(Drop(t, Len(CAP_CLOSE)))
    ELSE LET rest == Drop(t, Len(CAP_OPEN))
             nl == Find(rest, <<"\n">>)
             line == IF nl = 0 THEN rest ELSE Take(rest, nl - 1)
             r == Find(line, <<"]">>)
         IN  IF StartsWith(t, CAP_OPEN) /\ r > 0
             THEN WithoutMarkers(Drop(rest, r))
             ELSE <<Head(t)>> \o WithoutMarkers(Tail(t))

\* C9: transform_caption removes exactly the opening '[caption ...]' marker
\* and the closing '[/caption]' marker; every other character, the later
\* text of the same line included, stays, in order.
C9_Claimed ==
    cap_pc = "returned" => new_caption = WithoutMarkers(cap_content)

----------------------------------------------------------------------------
(* The claim about transform_content, checked under SpecContent *)

\* the text from its i-th character on
From(t, i) == SubSeq(t, i, Len(t))

\* an opening '[sourcecode language=".."]' marker starts the text
SourcecodeOpenAt(t) ==
    /\ StartsWith(t, SC_OPEN)
    /\ \E q \in 1..Len(t) :
          /\ q > Len(SC_OPEN) + 1
          /\ \A j \in (Len(SC_OPEN) + 1)..(q - 1) : t[j] # "\""
          /\ StartsWith(From(t, q), <<"\"", "]">>)

\* an opening '[caption ...]' marker starts the text: a ']' follows '[caption'
\* on the same line
CaptionOpenAt(t) ==
    /\ StartsWith(t, CAP_OPEN)
    /\ \E q \in 1..Len(t) :
          /\ q > Len(CAP_OPEN) /\ t[q] = "]"
          /\ \A j \in (Len(CAP_OPEN) + 1)..(q - 1) : t[j] # "\n"

\* the text holds none of the four shortcode markers
NoShortcode(t) ==
    \A i \in 1..Len(t) :
        /\ ~SourcecodeOpenAt(From(t, i)) /\ ~StartsWith(From(t, i), SC_CLOSE)
        /\ ~CaptionOpenAt(From(t, i)) /\ ~StartsWith(From(t, i), CAP_CLOSE)

\* C15 as claimed: for a text without shortcode marker and either setting of
\* squash_newlines the output equals the input, and so does the output of a
\* second application.
C15_Claimed ==
    (tc_pc = "twice" /\ NoShortcode(tc_content))
        => (tc_once = tc_content /\ tc_twice = tc_once)

\* the text with every run of three or more newlines cut to two
RECURSIVE Squashed(_)
Squashed(t) ==
    IF t = <<>> THEN <<>>
    ELSE IF Head(t) # "\n" THEN <<Head(t)>> \o Squashed(Tail(t))
    ELSE LET after == LStrip(t, {"\n"})
             run == Len(t) - Len(after)
         IN  [i \in 1..Min(run, 2) |-> "\n"] \o Squashed(after)

\* C15, amended: for a text without shortcode marker, the output equals the
\* input when squash_newlines is off; when it is on, the output is the input
\* with every run of three or more newlines cut to two; under either setting
\* a second application changes nothing more.
C15_Amended ==
    (tc_pc = "twice" /\ NoShortcode(tc_content))
        => /\ tc_once = IF squash_newlines THEN Squashed(tc_content) ELSE tc_content
           /\ tc_twice = tc_once

\* a text without marker that squash_newlines shortens, transformed twice
C15_Witness ==
    /\ tc_pc = "twice" /\ squash_newlines /\ NoShortcode(tc_content)
    /\ Find(tc_content, CAP_OPEN) > 0
    /\ tc_once # tc_content /\ tc_twice = tc_once

----------------------------------------------------------------------------
(* The claim about populate_context, checked under SpecContext *)

\* C16: for every channel, its link element present, present but empty, or
\* missing, populate_context returns, and the base URL it returns is
\* non-empty and ends with '/', and the site URL equals the base URL (seen
\* here for the channels whose language element is not empty).
C16_Claimed ==
    ctx_channel.language # None
        => /\ ctx_pc # "raised"
           /\ ctx_pc = "returned"
                 => /\ ctx.BASE_URL # <<>> /\ EndsWith(ctx.BASE_URL, <<"/">>)
                    /\ ctx.SITE_URL = Str(ctx.BASE_URL)

----------------------------------------------------------------------------
(* The claim about _glue_xml_lines, checked under SpecGlue *)

\* line k begins with a space or tab and the line before it ended in a newline
Continuation(lines, k) ==
    k >= 2 /\ Indented(lines[k]) /\ EndsWith(lines[k - 1], <<"\n">>)

\* the first k lines joined as claimed: no separator before a continuation
\* line, a newline before every other line
RECURSIVE GluedAsClaimed(_, _)
GluedAsClaimed(lines, k) ==
    IF k = 1 THEN lines[1]
    ELSE GluedAsClaimed(lines, k - 1)
         \o (IF Continuation(lines, k) THEN <<>> ELSE <<"\n">>) \o lines[k]

\* C10 as claimed: a line after the first is appended with no separator
\* exactly when it begins with a space or tab and the previous line ended in
\* a newline; every other line, the first one after an indented run
\* included, is joined with a newline.
C10_Claimed ==
    glue_pc \in {"loop", "returned"} => new_xml = GluedAsClaimed(xml, glue_i - 1)

\* the same, with no separator after a continuation line either
RECURSIVE GluedAsAmended(_, _)
GluedAsAmended(lines, k) ==
    IF k = 1 THEN lines[1]
    ELSE GluedAsAmended(lines, k - 1)
         \o (IF Continuation(lines, k) \/ Continuation(lines, k - 1)
             THEN <<>> ELSE <<"\n">>)
         \o lines[k]

\* C10, amended: a line after the first is appended with no separator
\* exactly when it begins with a space or tab and the previous line ended in
\* a newline, or when the previous line was appended for that reason (so the
\* line that follows a continuation line gets no separator, whether it is
\* indented or not); every other line is joined with a newline.
C10_Amended ==
    glue_pc \in {"loop", "returned"} => new_xml = GluedAsAmended(xml, glue_i - 1)

\* a run of two continuation lines, then a line that is not indented
C10_Witness ==
    /\ glue_pc = "returned" /\ Len(xml) >= 4
    /\ Continuation(xml, 2) /\ Continuation(xml, 3) /\ ~Indented(xml[4])

====
